---------------------------- MODULE Spec2Model ----------------------------
(***************************************************************************)
(* A model of norm-my-py (src/main.py): the PythonNorminette checker.      *)
(*                                                                         *)
(* Strings are sequences of tokens (a token is a TLA+ string): ":" and     *)
(* " " are the separators the flake8 adapter splits on, a numeral token    *)
(* stands for a run of digits, every other token for a run of other        *)
(* characters.  A path is such a string: <<"pkg", "/", "m", ".py">>.        *)
(***************************************************************************)
EXTENDS Integers, Sequences, FiniteSets, TLC

VARIABLES
    argv,           \* sys.argv[1:] of the process (main)
    pc,             \* position: "start", "idle", "loop", "dir", "done", "exited"
    errors,         \* self.errors
    files_checked,  \* self.files_checked
    total_errors,   \* self.total_errors
    paths,          \* run(): the paths argument
    i,              \* run(): index of the path argument the loop is at
    all_errors,     \* run(): all_errors
    dirqueue,       \* run(): what path.rglob('*.py') has still to yield
    ret,            \* run(): its return value (None until it returns)
    exit_status,    \* the process's exit status (None while it runs)
    warnings,       \* console: the warnings printed during the current run
    report,         \* console: what print_errors printed, one group per header
    summary,        \* console: the counts the summary line printed
    linter,         \* environment: "ok", "absent" (no flake8 binary), "broken"
    calls,          \* history: the check_file calls of the current run
    base,           \* history: files_checked when the current run began
    runs,           \* history: number of run() calls so far
    tree,           \* rule checks: the parsed tree under check
    rpc,            \* rule checks: "off", "parsed", "hints", "docs"
    hints,          \* rule checks: what _check_type_hints returned
    docs            \* rule checks: what _check_docstrings returned

vars == <<argv, pc, errors, files_checked, total_errors, paths, i, all_errors,
          dirqueue, ret, exit_status, warnings, report, summary, linter,
          calls, base, runs, tree, rpc, hints, docs>>

runvars == <<argv, pc, errors, files_checked, total_errors, paths, i,
             all_errors, dirqueue, ret, exit_status, warnings, report,
             summary, linter, calls, base, runs>>

rulevars == <<tree, rpc, hints, docs>>

----------------------------------------------------------------------------
(* Bounds *)

MaxArgs == 2        \* path arguments of one run
MaxRuns == 2        \* run() calls on one instance (SpecReuse)
MaxParams == 2      \* parameters of a drawn function declaration

None == -1          \* Python's None where an int is expected

----------------------------------------------------------------------------
(* Sequence helpers *)

RECURSIVE SeqsUpTo(_, _)
SeqsUpTo(S, n) ==
    IF n = 0 THEN {<<>>}
    ELSE LET shorter == SeqsUpTo(S, n - 1)
         IN shorter \cup {Append(s, x) : s \in {t \in shorter : Len(t) = n - 1}, x \in S}

Last(s) == s[Len(s)]

RECURSIVE Concat(_)
Concat(ss) == IF ss = <<>> THEN <<>> ELSE Head(ss) \o Concat(Tail(ss))

----------------------------------------------------------------------------
(* NormError, src/main.py:15-23 *)

NormError(file, line, col, code, message) ==
    [file |-> file, line |-> line, col |-> col, code |-> code,
     message |-> message, severity |-> "Error"]

----------------------------------------------------------------------------
(* The syntax tree.  A tree is the sequence of its declaration nodes in    *)
(* source order; depth is the node's nesting level in the AST.             *)

FunctionDef == "FunctionDef"
AsyncFunctionDef == "AsyncFunctionDef"
ClassDef == "ClassDef"

Node(kind, name, lineno, depth, returns, args, doc) ==
    [kind |-> kind, name |-> name, lineno |-> lineno,
     col_offset |-> 4 * (depth - 1), depth |-> depth,
     returns |-> returns, args |-> args, doc |-> doc]

Arg(name, annotation) == [arg |-> name, annotation |-> annotation]

\* ast.walk: breadth first, so by depth, and in source order within a depth.
RECURSIVE WalkLevels(_, _, _)
WalkLevels(t, d, maxd) ==
    IF d > maxd THEN <<>>
    ELSE SelectSeq(t, LAMBDA n : n.depth = d) \o WalkLevels(t, d + 1, maxd)

MaxDepth(t) ==
    IF t = <<>> THEN 0
    ELSE CHOOSE d \in {t[k].depth : k \in 1..Len(t)} :
             \A k \in 1..Len(t) : t[k].depth <= d

Walk(t) == WalkLevels(t, 1, MaxDepth(t))

\* node.name.startswith('__') and node.name.endswith('__'), by table: TLA+
\* strings are atoms.
DunderNames == {"__init__", "__str__"}
FunctionNames == {"f", "__init__", "__str__"}

IsDunder(name) == name \in DunderNames

----------------------------------------------------------------------------
(* _check_type_hints, src/main.py:67-103 *)

IsReceiverName(name) == name = "self" \/ name = "cls"

RECURSIVE ArgHints(_, _, _)
ArgHints(node, args, filepath) ==
    IF args = <<>> THEN <<>>
    ELSE LET a == Head(args)
             rest == ArgHints(node, Tail(args), filepath)
         IN IF IsReceiverName(a.arg) THEN rest
            ELSE IF ~a.annotation
            THEN <<NormError(filepath, node.lineno, node.col_offset,
                             <<"TYPE_HINT">>,
                             <<"Argument", a.arg, "in function", node.name,
                               "missing type hint">>)>> \o rest
            ELSE rest

NodeHints(node, filepath) ==
    IF node.kind # FunctionDef THEN <<>>
    ELSE IF IsDunder(node.name) THEN <<>>
    ELSE (IF ~node.returns
          THEN <<NormError(filepath, node.lineno, node.col_offset,
                           <<"TYPE_HINT">>,
                           <<"Function", node.name,
                             "missing return type hint">>)>>
          ELSE <<>>)
         \o ArgHints(node, node.args, filepath)

RECURSIVE HintsOver(_, _)
HintsOver(nodes, filepath) ==
    IF nodes = <<>> THEN <<>>
    ELSE NodeHints(Head(nodes), filepath) \o HintsOver(Tail(nodes), filepath)

check_type_hints(t, filepath) == HintsOver(Walk(t), filepath)

----------------------------------------------------------------------------
(* _check_docstrings, src/main.py:105-138.  node.doc is the truth value of *)
(* ast.get_docstring(node): a docstring that is there and not empty.       *)

is_magic_mut(name) == IsDunder(name)
is_magic(name) == IsDunder(name) /\ name # "__init__"

NodeDocs(node, filepath) ==
    IF node.kind = ClassDef
    THEN IF ~node.doc
         THEN <<NormError(filepath, node.lineno, node.col_offset,
                          <<"DOCSTRING">>,
                          <<"Class", node.name, "missing docstring">>)>>
         ELSE <<>>
    ELSE IF node.kind = FunctionDef
    THEN IF is_magic(node.name) THEN <<>>
         ELSE IF ~node.doc
         THEN <<NormError(filepath, node.lineno, node.col_offset,
                          <<"DOCSTRING">>,
                          <<"Function", node.name, "missing docstring">>)>>
         ELSE <<>>
    ELSE <<>>

RECURSIVE DocsOver(_, _)
DocsOver(nodes, filepath) ==
    IF nodes = <<>> THEN <<>>
    ELSE NodeDocs(Head(nodes), filepath) \o DocsOver(Tail(nodes), filepath)

check_docstrings(t, filepath) == DocsOver(Walk(t), filepath)

----------------------------------------------------------------------------
(* Python's str operations on token strings *)

Numerals == <<"0", "1", "2", "3", "4", "5", "6", "7", "8", "9">>

\* '%d' % n
Num(n) == Numerals[n + 1]

IndexOf(s, tok) == CHOOSE k \in 1..Len(s) : s[k] = tok /\ \A j \in 1..(k - 1) : s[j] # tok

\* s.split(sep, maxsplit)
RECURSIVE Split(_, _, _)
Split(s, sep, maxsplit) ==
    IF maxsplit = 0 \/ \A k \in 1..Len(s) : s[k] # sep THEN <<s>>
    ELSE LET k == IndexOf(s, sep)
         IN <<SubSeq(s, 1, k - 1)>> \o Split(SubSeq(s, k + 1, Len(s)), sep, maxsplit - 1)

\* s.strip()
RECURSIVE LStrip(_)
LStrip(s) == IF s # <<>> /\ Head(s) = " " THEN LStrip(Tail(s)) ELSE s

RECURSIVE RStrip(_)
RStrip(s) == IF s # <<>> /\ Last(s) = " " THEN RStrip(SubSeq(s, 1, Len(s) - 1)) ELSE s

Strip(s) == RStrip(LStrip(s))

\* int(s): the value, or ValueError (ok = FALSE)
ParseInt(s) ==
    LET t == Strip(s)
    IN IF Len(t) = 1 /\ \E n \in 0..9 : Num(n) = t[1]
       THEN [ok |-> TRUE, value |-> CHOOSE n \in 0..9 : Num(n) = t[1]]
       ELSE [ok |-> FALSE, value |-> 0]

----------------------------------------------------------------------------
(* The file system the checker runs against *)

OkPy == <<"ok", ".py">>
BadPy == <<"bad", ".py">>
SynPy == <<"syn", ".py">>
NulPy == <<"nul", ".py">>
LockPy == <<"lock", ".py">>
NotesTxt == <<"notes", ".txt">>
GhostPy == <<"ghost", ".py">>
ColonPy == <<"a", ":", "1", ":", "2", ":", "x", ".py">>
Pkg == <<"pkg">>
PkgM == <<"pkg", "/", "m", ".py">>
PkgReadme == <<"pkg", "/", "readme", ".txt">>
PkgSub == <<"pkg", "/", "sub">>
PkgSubN == <<"pkg", "/", "sub", "/", "n", ".py">>

Parsed(t) == [parse |-> "tree", tree |-> t, lineno |-> None, offset |-> None]
SyntaxErr(lineno, offset) ==
    [parse |-> "SyntaxError", tree |-> <<>>, lineno |-> lineno, offset |-> offset]
OtherErr == [parse |-> "Exception", tree |-> <<>>, lineno |-> None, offset |-> None]

File(p, content) == [path |-> p, kind |-> "file", content |-> content]
Dir(p) == [path |-> p, kind |-> "dir", content |-> OtherErr]

\* ok.py: def f(x: int) -> int, documented.
OkTree == <<Node(FunctionDef, "f", 1, 1, TRUE, <<Arg("x", TRUE)>>, TRUE)>>

\* bad.py: class K (line 1), its method m(self, x) (line 2), neither
\* documented nor annotated, and def g() (line 5), documented, no return hint.
BadTree == <<Node(ClassDef, "K", 1, 1, TRUE, <<>>, FALSE),
             Node(FunctionDef, "m", 2, 2, FALSE,
                  <<Arg("self", FALSE), Arg("x", FALSE)>>, FALSE),
             Node(FunctionDef, "g", 5, 1, FALSE, <<>>, TRUE)>>

\* pkg/m.py: def h(a), documented, not annotated.
PkgMTree == <<Node(FunctionDef, "h", 1, 1, FALSE, <<Arg("a", FALSE)>>, TRUE)>>

\* In directory-traversal order.
FS == <<File(OkPy, Parsed(OkTree)),
        File(BadPy, Parsed(BadTree)),
        File(SynPy, SyntaxErr(3, 7)),
        File(NulPy, SyntaxErr(None, None)),
        File(LockPy, OtherErr),
        File(NotesTxt, OtherErr),
        File(ColonPy, Parsed(<<>>)),
        Dir(Pkg),
        File(PkgM, Parsed(PkgMTree)),
        File(PkgReadme, OtherErr),
        Dir(PkgSub),
        File(PkgSubN, Parsed(<<>>))>>

Exists(p) == \E k \in 1..Len(FS) : FS[k].path = p
Entry(p) == FS[CHOOSE k \in 1..Len(FS) : FS[k].path = p]

\* Path(path_str) and str(path): a leading "./" and a trailing "/" go.
RECURSIVE StrPath(_)
StrPath(s) ==
    IF Len(s) > 1 /\ Head(s) = "./" THEN StrPath(Tail(s))
    ELSE IF Len(s) > 1 /\ Last(s) = "/" THEN StrPath(SubSeq(s, 1, Len(s) - 1))
    ELSE s

is_file(p) == Exists(p) /\ Entry(p).kind = "file"
is_dir(p) == Exists(p) /\ Entry(p).kind = "dir"

\* path.suffix
suffix(p) == IF p # <<>> /\ Last(p) \in {".py", ".txt"} THEN Last(p) ELSE ""

IsUnder(p, d) ==
    Len(p) > Len(d) + 1 /\ SubSeq(p, 1, Len(d)) = d /\ p[Len(d) + 1] = "/"

\* path.rglob('*.py')
rglob(d) ==
    LET hits == SelectSeq(FS, LAMBDA e : IsUnder(e.path, d) /\ Last(e.path) = ".py")
    IN [k \in 1..Len(hits) |-> hits[k].path]

----------------------------------------------------------------------------
(* flake8, the external linter: what it prints for a file *)

\* '--format=%(path)s:%(row)d:%(col)d: %(code)s %(text)s'
FormatLine(path, row, col, code, text) ==
    path \o <<":", Num(row), ":", Num(col), ":", " ", code, " ", text>>

Flake8Stdout(filepath) ==
    IF filepath = BadPy
    THEN <<FormatLine(filepath, 2, 4, "E301", "expected 1 blank line"),
           <<"flake8", " ", "notice">>,
           FormatLine(filepath, 1, 1, "D100", "missing docstring")>>
    ELSE IF filepath = PkgM
    THEN <<FormatLine(filepath, 1, 1, "E231", "missing whitespace"),
           <<"Traceback", ":", " ", "most recent", ":", "call", ":", "last">>,
           FormatLine(filepath, 1, 0, "W291", "trailing whitespace")>>
    ELSE IF filepath = ColonPy
    THEN <<FormatLine(filepath, 3, 1, "E501", "line too long")>>
    ELSE <<>>

----------------------------------------------------------------------------
(* _check_flake8, src/main.py:140-186 *)

\* One stdout line, lines 157-175: dropped, a Finding, or an exception.
ParseLine(line) ==
    IF line = <<>> THEN [kind |-> "skip", error |-> <<>>]
    ELSE LET parts == Split(line, ":", 3)
         IN IF Len(parts) >= 4
            THEN LET line_num == ParseInt(parts[2])
                     col_num == ParseInt(parts[3])
                     msg_parts == Split(Strip(parts[4]), " ", 1)
                 IN IF ~line_num.ok \/ ~col_num.ok
                    THEN [kind |-> "raise", error |-> <<>>]
                    ELSE [kind |-> "finding",
                          error |-> <<NormError(parts[1], line_num.value,
                                                col_num.value, msg_parts[1],
                                                IF Len(msg_parts) > 1
                                                THEN msg_parts[2] ELSE <<>>)>>]
            ELSE [kind |-> "skip", error |-> <<>>]

\* The for loop of lines 156-175: errors grows line by line until the
\* lines end or one raises.
RECURSIVE ParseLines(_, _)
ParseLines(lines, acc) ==
    IF lines = <<>> THEN [errors |-> acc, raised |-> FALSE]
    ELSE LET r == ParseLine(Head(lines))
         IN IF r.kind = "raise" THEN [errors |-> acc, raised |-> TRUE]
            ELSE ParseLines(Tail(lines), acc \o r.error)

\* except FileNotFoundError, lines 177-182
FlakeMissingMut(acc) == [errors |-> acc, warnings |-> <<"not installed", "not installed">>]
FlakeMissing(acc) == [errors |-> acc, warnings |-> <<"not installed">>]

\* except Exception, lines 183-184
FlakeFailed(acc) == [errors |-> acc, warnings |-> <<"check failed">>]

check_flake8(filepath, mode) ==
    IF mode = "absent" THEN FlakeMissing(<<>>)
    ELSE IF mode = "broken" THEN FlakeFailed(<<>>)
    ELSE LET r == ParseLines(Flake8Stdout(filepath), <<>>)
         IN IF r.raised THEN FlakeFailed(r.errors)
            ELSE [errors |-> r.errors, warnings |-> <<>>]

----------------------------------------------------------------------------
(* check_file, src/main.py:34-65 *)

\* e.lineno or 0
OrZeroMut(x) == x
OrZero(x) == IF x = None \/ x = 0 THEN 0 ELSE x

check_file(filepath, mode) ==
    LET c == Entry(filepath).content
    IN IF c.parse = "SyntaxError"
       THEN [errors |-> <<NormError(filepath, OrZero(c.lineno), OrZero(c.offset),
                                    <<"SYNTAX">>, <<"Syntax error">>)>>,
             warnings |-> <<>>, linted |-> FALSE]
       ELSE IF c.parse = "Exception"
       THEN [errors |-> <<NormError(filepath, 0, 0, <<"FATAL">>,
                                    <<"Cannot check file">>)>>,
             warnings |-> <<>>, linted |-> FALSE]
       ELSE LET flake == check_flake8(filepath, mode)
            IN [errors |-> check_type_hints(c.tree, filepath)
                           \o check_docstrings(c.tree, filepath)
                           \o flake.errors,
                warnings |-> flake.warnings, linted |-> TRUE]

----------------------------------------------------------------------------
(* print_errors, src/main.py:188-212 *)

KeyLE(a, b) == a.line < b.line \/ (a.line = b.line /\ a.col <= b.col)

\* sorted(file_errors, key=lambda x: (x.line, x.col)): stable.
InsertMut(sorted, x) ==
    LET before == SelectSeq(sorted, LAMBDA y : y.line < x.line \/ (y.line = x.line /\ y.col < x.col))
    IN before \o <<x>> \o SubSeq(sorted, Len(before) + 1, Len(sorted))
Insert(sorted, x) ==
    LET before == SelectSeq(sorted, LAMBDA y : KeyLE(y, x))
    IN before \o <<x>> \o SubSeq(sorted, Len(before) + 1, Len(sorted))

RECURSIVE SortInto(_, _)
SortInto(sorted, rest) ==
    IF rest = <<>> THEN sorted ELSE SortInto(Insert(sorted, Head(rest)), Tail(rest))

Sorted(file_errors) == SortInto(<<>>, file_errors)

\* The dict of lines 193-197: its keys in insertion order.
RECURSIVE FileKeys(_, _)
FileKeys(errs, seen) ==
    IF errs = <<>> THEN seen
    ELSE IF \E k \in 1..Len(seen) : seen[k] = Head(errs).file
    THEN FileKeys(Tail(errs), seen)
    ELSE FileKeys(Tail(errs), Append(seen, Head(errs).file))

print_errors(errs) ==
    LET keys == FileKeys(errs, <<>>)
    IN [k \in 1..Len(keys) |->
           [file |-> keys[k],
            lines |-> Sorted(SelectSeq(errs, LAMBDA e : e.file = keys[k]))]]

----------------------------------------------------------------------------
(* run, src/main.py:214-252, and main, src/main.py:255-272 *)

PathArgs == {OkPy, BadPy, <<"./">> \o BadPy, SynPy, NulPy, LockPy, NotesTxt,
             GhostPy, ColonPy, Pkg}

ReuseArgs == {OkPy, BadPy, NotesTxt, GhostPy, Pkg}

LinterModes == {"ok", "absent", "broken"}

NoSummary == [total |-> None, files |-> None]

Fresh ==
    /\ errors = <<>>
    /\ files_checked = 0
    /\ total_errors = 0
    /\ paths = <<>>
    /\ i = 0
    /\ all_errors = <<>>
    /\ dirqueue = <<>>
    /\ ret = None
    /\ exit_status = None
    /\ warnings = <<>>
    /\ report = <<>>
    /\ summary = NoSummary
    /\ calls = <<>>
    /\ base = 0
    /\ runs = 0

RulesOff ==
    /\ tree = <<>>
    /\ rpc = "off"
    /\ hints = <<>>
    /\ docs = <<>>

\* The process: python main.py argv
Init ==
    /\ argv \in SeqsUpTo(PathArgs, MaxArgs)
    /\ linter \in LinterModes
    /\ pc = "start"
    /\ Fresh
    /\ RulesOff

\* A PythonNorminette instance a caller keeps and runs again.
InitReuse ==
    /\ argv = <<>>
    /\ linter \in LinterModes
    /\ pc = "idle"
    /\ Fresh
    /\ RulesOff

\* run(p) is entered: line 216.
EnterRun(p) ==
    /\ paths' = p
    /\ i' = 1
    /\ all_errors' = <<>>
    /\ dirqueue' = <<>>
    /\ ret' = None
    /\ warnings' = <<>>
    /\ report' = <<>>
    /\ summary' = NoSummary
    /\ calls' = <<>>
    /\ base' = files_checked
    /\ runs' = runs + 1
    /\ pc' = "loop"

\* main, lines 257-263: no argument.
Usage ==
    /\ pc = "start"
    /\ Len(argv) < 1
    /\ exit_status' = 1
    /\ pc' = "exited"
    /\ UNCHANGED <<argv, errors, files_checked, total_errors, paths, i,
                   all_errors, dirqueue, ret, warnings, report, summary,
                   linter, calls, base, runs, rulevars>>

\* main, lines 269-270: PythonNorminette() and run(sys.argv[1:]).
Main ==
    /\ pc = "start"
    /\ Len(argv) >= 1
    /\ errors' = <<>>
    /\ files_checked' = 0
    /\ total_errors' = 0
    /\ EnterRun(argv)
    /\ UNCHANGED <<argv, exit_status, linter, rulevars>>

\* A caller's run(p) on the instance it holds.
Call(p) ==
    /\ pc \in {"idle", "done"}
    /\ runs < MaxRuns
    /\ EnterRun(p)
    /\ UNCHANGED <<argv, errors, files_checked, total_errors, exit_status,
                   linter, rulevars>>

AtArg == pc = "loop" /\ i <= Len(paths)
path == StrPath(paths[i])

IsPyFileMut(p) == suffix(p) # ""
IsPyFile(p) == suffix(p) = ".py"

\* Lines 223-225 and 229-231: count, check, extend.
Check(filepath) ==
    LET r == check_file(filepath, linter)
    IN /\ files_checked' = files_checked + 1
       /\ all_errors' = all_errors \o r.errors
       /\ warnings' = warnings \o r.warnings
       /\ calls' = Append(calls, [path |-> filepath, errors |-> r.errors,
                                  warnings |-> r.warnings, linted |-> r.linted])

\* Lines 221-225.
VisitFile ==
    /\ AtArg
    /\ is_file(path)
    /\ IsPyFile(path)
    /\ Check(path)
    /\ i' = i + 1
    /\ UNCHANGED <<argv, pc, errors, total_errors, paths, dirqueue, ret,
                   exit_status, report, summary, linter, base, runs, rulevars>>

\* Lines 221-222: a file, not .py.
SkipFile ==
    /\ AtArg
    /\ is_file(path)
    /\ ~IsPyFile(path)
    /\ i' = i + 1
    /\ UNCHANGED <<argv, pc, errors, files_checked, total_errors, paths,
                   all_errors, dirqueue, ret, exit_status, warnings, report,
                   summary, linter, calls, base, runs, rulevars>>

\* Lines 227-228.
EnterDir ==
    /\ AtArg
    /\ ~is_file(path)
    /\ is_dir(path)
    /\ dirqueue' = rglob(path)
    /\ pc' = "dir"
    /\ UNCHANGED <<argv, errors, files_checked, total_errors, paths, i,
                   all_errors, ret, exit_status, warnings, report, summary,
                   linter, calls, base, runs, rulevars>>

\* Lines 228-231: one py_file.
VisitDirFile ==
    /\ pc = "dir"
    /\ dirqueue # <<>>
    /\ Check(Head(dirqueue))
    /\ dirqueue' = Tail(dirqueue)
    /\ UNCHANGED <<argv, pc, errors, total_errors, paths, i, ret,
                   exit_status, report, summary, linter, base, runs, rulevars>>

\* Line 228: rglob is exhausted.
LeaveDir ==
    /\ pc = "dir"
    /\ dirqueue = <<>>
    /\ i' = i + 1
    /\ pc' = "loop"
    /\ UNCHANGED <<argv, errors, files_checked, total_errors, paths,
                   all_errors, dirqueue, ret, exit_status, warnings, report,
                   summary, linter, calls, base, runs, rulevars>>

\* Lines 221 and 227: neither a file nor a directory.
SkipMissing ==
    /\ AtArg
    /\ ~is_file(path)
    /\ ~is_dir(path)
    /\ i' = i + 1
    /\ UNCHANGED <<argv, pc, errors, files_checked, total_errors, paths,
                   all_errors, dirqueue, ret, exit_status, warnings, report,
                   summary, linter, calls, base, runs, rulevars>>

\* Lines 239-252.
ReturnCodeMut(total) == IF total <= 1 THEN 0 ELSE 1
ReturnCode(total) == IF total = 0 THEN 0 ELSE 1

\* Lines 233-252.
Finish ==
    /\ pc = "loop"
    /\ i > Len(paths)
    /\ total_errors' = Len(all_errors)
    /\ errors' = all_errors
    /\ report' = print_errors(all_errors)
    /\ summary' = [total |-> Len(all_errors), files |-> files_checked]
    /\ ret' = ReturnCode(Len(all_errors))
    /\ pc' = "done"
    /\ UNCHANGED <<argv, files_checked, paths, i, all_errors, dirqueue,
                   exit_status, warnings, linter, calls, base, runs, rulevars>>

\* main, line 272: sys.exit(exit_code).
Exit ==
    /\ pc = "done"
    /\ exit_status' = ret
    /\ pc' = "exited"
    /\ UNCHANGED <<argv, errors, files_checked, total_errors, paths, i,
                   all_errors, dirqueue, ret, warnings, report, summary,
                   linter, calls, base, runs, rulevars>>

Next ==
    \/ Usage
    \/ Main
    \/ VisitFile
    \/ SkipFile
    \/ EnterDir
    \/ VisitDirFile
    \/ LeaveDir
    \/ SkipMissing
    \/ Finish
    \/ Exit

Spec == Init /\ [][Next]_vars

NextReuse ==
    \/ \E p \in SeqsUpTo(ReuseArgs, MaxArgs) : Call(p)
    \/ VisitFile
    \/ SkipFile
    \/ EnterDir
    \/ VisitDirFile
    \/ LeaveDir
    \/ SkipMissing
    \/ Finish

SpecReuse == InitReuse /\ [][NextReuse]_vars

----------------------------------------------------------------------------
(* The rule checks on their own: a declaration is drawn, set into a module *)
(* between a class and a function, and the two checks run as check_file    *)
(* runs them (lines 44-45).                                                *)

RulePath == <<"m", ".py">>

ArgNames == {"self", "cls", "x"}
Args == {Arg(n, a) : n \in ArgNames, a \in BOOLEAN}

Decls ==
    {Node(k, n, 2, d, r, al, doc) :
        k \in {FunctionDef, AsyncFunctionDef}, n \in FunctionNames,
        d \in {1, 2}, r \in BOOLEAN, al \in SeqsUpTo(Args, MaxParams),
        doc \in BOOLEAN}
    \cup {Node(ClassDef, "C", 2, d, TRUE, <<>>, doc) : d \in {1, 2}, doc \in BOOLEAN}

\* class K:            (line 1, no docstring)
\*     <the declaration, or at depth 1 after the class>   (line 2)
\* def g(y): """doc""" (line 5)
Module(decl) ==
    <<Node(ClassDef, "K", 1, 1, TRUE, <<>>, FALSE),
      decl,
      Node(FunctionDef, "g", 5, 1, FALSE, <<Arg("y", FALSE)>>, TRUE)>>

InitRules ==
    /\ tree \in {Module(decl) : decl \in Decls}
    /\ rpc = "parsed"
    /\ hints = <<>>
    /\ docs = <<>>
    /\ argv = <<>>
    /\ linter = "ok"
    /\ pc = "idle"
    /\ Fresh

\* Line 44.
RunTypeHints ==
    /\ rpc = "parsed"
    /\ hints' = check_type_hints(tree, RulePath)
    /\ rpc' = "hints"
    /\ UNCHANGED <<tree, docs, runvars>>

\* Line 45.
RunDocstrings ==
    /\ rpc = "hints"
    /\ docs' = check_docstrings(tree, RulePath)
    /\ rpc' = "docs"
    /\ UNCHANGED <<tree, hints, runvars>>

NextRules ==
    \/ RunTypeHints
    \/ RunDocstrings

SpecRules == InitRules /\ [][NextRules]_vars

----------------------------------------------------------------------------
(* What the claims are stated in *)

TypeHintCode == <<"TYPE_HINT">>
DocstringCode == <<"DOCSTRING">>
SyntaxCode == <<"SYNTAX">>
FatalCode == <<"FATAL">>

\* The Findings of code c at a node's declaration line/column.
At(findings, node, c) ==
    SelectSeq(findings, LAMBDA e : e.line = node.lineno /\ e.col = node.col_offset
                                    /\ e.code = c)

DunderStyle(name) == name \in {"__init__", "__str__"}

RECURSIVE Sum(_)
Sum(ns) == IF ns = <<>> THEN 0 ELSE Head(ns) + Sum(Tail(ns))

CallPaths == [k \in 1..Len(calls) |-> calls[k].path]
CallErrors == Concat([k \in 1..Len(calls) |-> calls[k].errors])
Count(s, x) == Len(SelectSeq(s, LAMBDA y : y = x))

ContentOf(p) == Entry(p).content

\* The Findings the two rule checks give for a file that parses.
RuleFindings(p) ==
    check_type_hints(ContentOf(p).tree, p) \o check_docstrings(ContentOf(p).tree, p)

InRun == pc \in {"loop", "dir", "done", "exited"}
\* run() has returned (main's usage exit never enters it).
Returned == pc \in {"done", "exited"} /\ runs > 0

----------------------------------------------------------------------------
\* C1: run() returns 0 exactly when the Findings collected from all the
\* files checked in that run number 0, and 1 otherwise; every kind of
\* Finding counts, a console warning does not; main exits with that code.
C1_ExitCode ==
    /\ Returned =>
          /\ ret = (IF Sum([k \in 1..Len(calls) |-> Len(calls[k].errors)]) = 0
                    THEN 0 ELSE 1)
          /\ ret = (IF \E k \in 1..Len(calls) : calls[k].errors # <<>>
                    THEN 1 ELSE 0)
    /\ (pc = "exited" /\ runs > 0) => exit_status = ret

\* A run that checked a file, printed a linter warning and returned 0.
C1_Witness ==
    /\ pc = "done"
    /\ ret = 0
    /\ calls # <<>>
    /\ warnings # <<>>

----------------------------------------------------------------------------
\* C2: a file that fails to parse gives exactly one Finding, SYNTAX, Error,
\* at the parser's line/column (0/0 when it gives none), nothing else, and
\* the linter is not invoked; any other read/parse failure gives exactly
\* one Finding, FATAL at 0/0, and nothing else.
C2_ParseFailure ==
    \A k \in 1..Len(calls) :
        LET call == calls[k]
            c == ContentOf(call.path)
        IN /\ c.parse = "SyntaxError" =>
                /\ Len(call.errors) = 1
                /\ call.errors[1].code = SyntaxCode
                /\ call.errors[1].severity = "Error"
                /\ call.errors[1].file = call.path
                /\ call.errors[1].line = (IF c.lineno = None THEN 0 ELSE c.lineno)
                /\ call.errors[1].col = (IF c.offset = None THEN 0 ELSE c.offset)
                /\ ~call.linted
                /\ call.warnings = <<>>
           /\ c.parse = "Exception" =>
                /\ Len(call.errors) = 1
                /\ call.errors[1].code = FatalCode
                /\ call.errors[1].line = 0
                /\ call.errors[1].col = 0
                /\ ~call.linted
                /\ call.warnings = <<>>

\* Both failures were seen in one run: a SyntaxError without a position and
\* an unreadable file.
C2_Witness ==
    /\ \E k \in 1..Len(calls) :
          /\ ContentOf(calls[k].path).parse = "SyntaxError"
          /\ ContentOf(calls[k].path).lineno = None
          /\ calls[k].errors[1].line = 0
    /\ \E k \in 1..Len(calls) : ContentOf(calls[k].path).parse = "Exception"

----------------------------------------------------------------------------
\* C3: when the linter's invocation or the processing of its output fails
\* (a warning is printed), the adapter returns zero Findings for the file,
\* and check_file returns the file's TYPE_HINT and DOCSTRING Findings
\* unchanged.
C3_AdapterFailure ==
    \A k \in 1..Len(calls) :
        (calls[k].linted /\ calls[k].warnings # <<>>) =>
            calls[k].errors = RuleFindings(calls[k].path)

----------------------------------------------------------------------------
\* C4: every function declaration whose name is not dunder-style gets
\* exactly R + N TYPE_HINT Findings at its line/column: R is 1 if the
\* return annotation is missing, N the number of positional parameters
\* without annotation, not counting only a first parameter named self or
\* cls; each parameter Finding names the parameter and the function.
Unannotated(node) ==
    {k \in 1..Len(node.args) :
        /\ ~node.args[k].annotation
        /\ ~(k = 1 /\ node.args[k].arg \in {"self", "cls"})}

C4_TypeHintCount ==
    rpc \in {"hints", "docs"} =>
        \A j \in 1..Len(tree) :
            LET node == tree[j]
            IN (node.kind = FunctionDef /\ ~DunderStyle(node.name)) =>
                  /\ Len(At(hints, node, TypeHintCode))
                        = (IF node.returns THEN 0 ELSE 1) + Cardinality(Unannotated(node))
                  /\ \A k \in Unannotated(node) :
                        \E e \in 1..Len(hints) :
                            /\ hints[e].line = node.lineno
                            /\ hints[e].col = node.col_offset
                            /\ hints[e].message
                                 = <<"Argument", node.args[k].arg, "in function",
                                     node.name, "missing type hint">>

----------------------------------------------------------------------------
----------------------------------------------------------------------------
(* The report, as the claims read it *)

SameKey(a, b) == a.line = b.line /\ a.col = b.col

Ascending(lines) ==
    \A a, b \in 1..Len(lines) :
        a < b => \/ lines[a].line < lines[b].line
                 \/ (lines[a].line = lines[b].line /\ lines[a].col <= lines[b].col)

\* The check a Finding comes from, by its code: type-hint, docstring, or
\* the external linter's.
Rank(e) == IF e.code = TypeHintCode THEN 0 ELSE IF e.code = DocstringCode THEN 1 ELSE 2

ReportFiles == [k \in 1..Len(report) |-> report[k].file]

FirstAt(s, x) == CHOOSE k \in 1..Len(s) : s[k] = x /\ \A j \in 1..(k - 1) : s[j] # x

\* One header for each file that has a Finding, in first-seen order, and
\* none for any other.
Headers ==
    LET files == [k \in 1..Len(errors) |-> errors[k].file]
    IN /\ \A k \in 1..Len(files) : Count(ReportFiles, files[k]) = 1
       /\ \A k \in 1..Len(report) :
             /\ Count(files, report[k].file) > 0
             /\ Len(report[k].lines) = Count(files, report[k].file)
             /\ \A e \in 1..Len(report[k].lines) : report[k].lines[e].file = report[k].file
       /\ \A a, b \in 1..Len(report) :
             a < b => FirstAt(files, report[a].file) < FirstAt(files, report[b].file)

\* C6, as claimed: under one header the Findings are in (line, column)
\* order and, where these are equal, type-hint Findings come before
\* docstring Findings before external-linter Findings; files appear in
\* first-seen order, one header per file with a Finding, none without.
C6_TieOrderByCheck ==
    pc = "done" =>
        /\ Headers
        /\ \A k \in 1..Len(report) :
              LET lines == report[k].lines
              IN /\ Ascending(lines)
                 /\ \A a, b \in 1..Len(lines) :
                       (a < b /\ SameKey(lines[a], lines[b]))
                           => Rank(lines[a]) <= Rank(lines[b])

\* C6, amended: where (line, column) are equal the Findings keep the order
\* in which the run collected them.
C6_StableReport ==
    pc = "done" =>
        /\ Headers
        /\ \A k \in 1..Len(report) :
              LET lines == report[k].lines
                  mine == SelectSeq(errors, LAMBDA e : e.file = report[k].file)
              IN /\ Ascending(lines)
                 /\ \A x \in 1..Len(mine) :
                       SelectSeq(lines, LAMBDA e : SameKey(e, mine[x]))
                           = SelectSeq(mine, LAMBDA e : SameKey(e, mine[x]))

\* A report where, under one header, Findings of the three checks share a
\* (line, column) and a file was checked twice.
C6_Witness ==
    /\ pc = "done"
    /\ \E k \in 1..Len(report) :
          /\ Count(CallPaths, report[k].file) = 2
          /\ \E a, b, c \in 1..Len(report[k].lines) :
                LET lines == report[k].lines
                IN /\ a < b /\ b < c
                   /\ SameKey(lines[a], lines[b]) /\ SameKey(lines[b], lines[c])
                   /\ Rank(lines[a]) = 0 /\ Rank(lines[b]) = 1 /\ Rank(lines[c]) = 2

----------------------------------------------------------------------------
(* The files a run is to check, read off the file system *)

RegularPy == {OkPy, BadPy, SynPy, NulPy, LockPy, ColonPy, PkgM, PkgSubN}
Ineligible == {NotesTxt, GhostPy}

Expected(arg) ==
    IF StrPath(arg) \in RegularPy THEN <<StrPath(arg)>>
    ELSE IF StrPath(arg) = Pkg THEN <<PkgM, PkgSubN>>
    ELSE <<>>

ExpectedUpTo(n) == Concat([k \in 1..n |-> Expected(paths[k])])

\* C7: during a run files_checked goes up by exactly one for each eligible
\* file, with exactly one check_file call for each, whatever the call
\* returns; a file with another extension and a path that does not exist
\* cause no increment, no call and no Finding, and the run goes on.
C7_FilesChecked ==
    /\ InRun =>
          /\ files_checked - base = Len(calls)
          /\ all_errors = CallErrors
    /\ pc = "loop" => CallPaths = ExpectedUpTo(i - 1)
    /\ Returned => CallPaths = ExpectedUpTo(Len(paths))

\* A run whose first argument is not eligible and whose second is a
\* directory: its two .py files were checked, one call gave Findings.
C7_Witness ==
    /\ pc = "done"
    /\ Len(paths) = 2
    /\ paths[1] \in Ineligible
    /\ paths[2] = Pkg
    /\ files_checked = 2
    /\ Len(calls) = 2
    /\ calls[1].errors # <<>>

----------------------------------------------------------------------------
NotInstalled == SelectSeq(warnings, LAMBDA w : w = "not installed")

RuleCodes == {TypeHintCode, DocstringCode, SyntaxCode, FatalCode}

\* C8, as claimed: the 'not installed' warning is printed at most once in
\* a run.
C8_WarnedOnce == Len(NotInstalled) <= 1

\* C8, amended: without the binary the warning is printed once for each
\* file the adapter is invoked for, never becomes a Finding, and every
\* such file keeps the Findings of the two rule checks.
C8_WarnedPerFile ==
    (linter = "absent" /\ InRun) =>
        /\ warnings = NotInstalled
        /\ Len(NotInstalled) = Len(SelectSeq(calls, LAMBDA c : c.linted))
        /\ \A k \in 1..Len(calls) :
              /\ calls[k].warnings = (IF calls[k].linted THEN <<"not installed">> ELSE <<>>)
              /\ \A e \in 1..Len(calls[k].errors) : calls[k].errors[e].code \in RuleCodes
              /\ calls[k].linted => calls[k].errors = RuleFindings(calls[k].path)
        /\ Returned => errors = CallErrors

\* A finished run without the binary: two files linted, two warnings, and
\* Findings from the rule checks.
C8_Witness ==
    /\ linter = "absent"
    /\ pc = "done"
    /\ Len(NotInstalled) = 2
    /\ errors # <<>>

----------------------------------------------------------------------------
\* C9: after any sequence of run() calls on one instance, total_errors is
\* the length of errors, which are the Findings of the latest run's
\* check_file calls, and files_checked is the number of files the latest
\* run checked, as the summary line reports.
C9_SummaryOfLatestRun ==
    pc = "done" =>
        /\ total_errors = Len(errors)
        /\ errors = CallErrors
        /\ files_checked = Len(calls)
        /\ summary = [total |-> Len(CallErrors), files |-> Len(calls)]

----------------------------------------------------------------------------
\* C10: every Finding check_file(filepath) returns has file = filepath, so
\* the report's headers are paths that were checked.
C10_FindingFile ==
    /\ \A k \in 1..Len(calls) :
          \A e \in 1..Len(calls[k].errors) : calls[k].errors[e].file = calls[k].path
    /\ pc = "done" =>
          \A k \in 1..Len(report) : Count(CallPaths, report[k].file) > 0

=============================================================================
